---- MODULE Spec2Model ----
(***************************************************************************)
(* Model of the backtest trade simulator of scripts/backtest_strategy.py   *)
(* (class TradeSimulator).                                                 *)
(*                                                                         *)
(* Arithmetic.  The program computes in binary floating point; the model   *)
(* computes the same expressions exactly, in integers, in these units:     *)
(*   - a bar price (open/high/low/close) is a whole number of ticks;       *)
(*   - a ledger price (buy_price, sell_price, stop prices, _peak_price) is *)
(*     counted in hundredths of a tick, so that buy_price * 0.97 and       *)
(*     buy_price * 1.01 are whole numbers;                                 *)
(*   - money (cash, equity, costs) is counted in 1/4000 of a tick, so that *)
(*     price * shares * 0.00025 is a whole number for whole lots;          *)
(*   - a rate is counted in units of 1e-5;                                 *)
(*   - pnl_pct is the fraction num/den, kept unreduced.                    *)
(* A date is the position of the bar in the (date-ascending) price series. *)
(* get_metrics is modelled without annual_return (a fractional power) and  *)
(* avg_holding_days (calendar arithmetic); its other results are fractions *)
(* num/den.                                                                *)
(***************************************************************************)
EXTENDS Integers, Sequences, FiniteSets, TLC

\* ------------------------------------------------------------------ bounds
MaxBars == 3        \* longest exhaustively enumerated price series
MaxStart == 1       \* largest start_idx of the enumerated runs
HoldSlack == 1      \* bars beyond MAX_HOLDING_DAYS + 1 in the long series

\* --------------------------------------------------------------- constants
COMMISSION_RATE == 25          \* 0.00025
STAMP_TAX_RATE == 50           \* 0.0005
STOP_LOSS_PCT == -3
TRAILING_ACTIVATE_PCT == 2
TRAILING_STOP_PCT == 1
MAX_HOLDING_DAYS == 20
LOT == 100

VARIABLES df, signals, start_idx, initial_capital,
          cash, shares, trades, pending_buy, equity_curve,
          peak_price, holding_days, i, pc, metrics

vars == <<df, signals, start_idx, initial_capital, cash, shares, trades,
          pending_buy, equity_curve, peak_price, holding_days, i, pc,
          metrics>>

inputs == <<df, signals, start_idx, initial_capital>>

\* ------------------------------------------------------------ unit helpers
\* bar price (ticks) -> ledger price (hundredths of a tick)
Px(t) == t * 100
\* ledger price * shares -> money (1/4000 tick)
Money(price, n) == price * n * 40

None == <<>>

\* df.iloc[k] / signals.iloc[k] for k >= 0 (0-based position)
iloc(s, k) == s[k + 1]

Bar(o, h, l, c) == [open |-> o, high |-> h, low |-> l, close |-> c]

WithDates(bars) ==
    [k \in 1..Len(bars) |->
        [date |-> k - 1, open |-> bars[k].open, high |-> bars[k].high,
         low |-> bars[k].low, close |-> bars[k].close]]

Sig(s) == [signal |-> s,
           reason |-> CASE s = "buy" -> "MACD_golden_cross"
                        [] s = "sell" -> "MACD_death_cross"
                        [] OTHER -> ""]

\* --------------------------------------------------------- TradeSimulator
_buy_cost(price, n) == (price * n * COMMISSION_RATE) \div 2500

\* variant: the stamp tax is not charged on a close
_sell_cost_commission_only(price, n) == (price * n * COMMISSION_RATE) \div 2500

_sell_cost(price, n) == (price * n * (COMMISSION_RATE + STAMP_TAX_RATE)) \div 2500

\* pnl of _close_position, as the fraction num/den
pnl_pct(sell_price, buy_price) ==
    [num |-> (sell_price - buy_price) * 100, den |-> buy_price]

\* cash after _close_position
close_cash(sell_price) ==
    cash + (Money(sell_price, shares) - _sell_cost(sell_price, shares))

\* variant: the trade is dated by the bar before the one it is closed on
close_trade_signal_dated(sell_price, sell_date, sell_reason) ==
    [buy_date |-> pending_buy[1].buy_date,
     buy_price |-> pending_buy[1].buy_price,
     sell_date |-> sell_date - 1,
     sell_price |-> sell_price,
     shares |-> shares,
     pnl_pct |-> pnl_pct(sell_price, pending_buy[1].buy_price),
     buy_reason |-> pending_buy[1].reason,
     sell_reason |-> sell_reason]

\* the trade record _close_position appends
close_trade(sell_price, sell_date, sell_reason) ==
    [buy_date |-> pending_buy[1].buy_date,
     buy_price |-> pending_buy[1].buy_price,
     sell_date |-> sell_date,
     sell_price |-> sell_price,
     shares |-> shares,
     pnl_pct |-> pnl_pct(sell_price, pending_buy[1].buy_price),
     buy_reason |-> pending_buy[1].reason,
     sell_reason |-> sell_reason]

\* variant: the signal's own bar is traded on
exec_day_same_bar(k) == iloc(df, k)

\* the bar a loop iteration i trades on
exec_day(k) == iloc(df, k + 1)

\* variant: the holding is left out of the equity
equity_of_cash_only(c, n, day_close) == c

\* mark-to-market equity of a ledger at a closing price
equity_of(c, n, day_close) == c + Money(Px(day_close), n)

\* variant: the stop is placed 3% above the entry
stop_loss_price_above(buy_price) == (buy_price * (100 - STOP_LOSS_PCT)) \div 100

stop_loss_price(buy_price) == (buy_price * (100 + STOP_LOSS_PCT)) \div 100

\* variant: the floor is placed at the activation level
trailing_price_at_activation(buy_price) ==
    (buy_price * (100 + TRAILING_ACTIVATE_PCT)) \div 100

trailing_price(buy_price) == (buy_price * (100 + TRAILING_STOP_PCT)) \div 100

\* variant: the peak is not raised by the bar's high
updated_peak_stale(peak, day_high) == peak

\* _peak_price after "if day_high > self._peak_price"
updated_peak(peak, day_high) == IF Px(day_high) > peak THEN Px(day_high) ELSE peak

\* pnl_from_peak >= TRAILING_ACTIVATE_PCT
trailing_active(peak, buy_price) ==
    (peak - buy_price) * 100 >= TRAILING_ACTIVATE_PCT * buy_price

\* variant: the holding-period check comes first
risk_exit_timeout_first(buy_price, peak, day_low, held) ==
    IF held >= MAX_HOLDING_DAYS THEN "timeout"
    ELSE IF Px(day_low) <= stop_loss_price(buy_price) THEN "stop_loss"
    ELSE IF trailing_active(peak, buy_price)
            /\ Px(day_low) <= trailing_price(buy_price) THEN "trailing_stop"
    ELSE "none"

\* variant: the holding period must be exceeded, not reached
risk_exit_late_timeout(buy_price, peak, day_low, held) ==
    IF Px(day_low) <= stop_loss_price(buy_price) THEN "stop_loss"
    ELSE IF trailing_active(peak, buy_price)
            /\ Px(day_low) <= trailing_price(buy_price) THEN "trailing_stop"
    ELSE IF held > MAX_HOLDING_DAYS THEN "timeout"
    ELSE "none"

\* the if-chain of the risk-control block: which exit fires, in code order
risk_exit(buy_price, peak, day_low, held) ==
    IF Px(day_low) <= stop_loss_price(buy_price) THEN "stop_loss"
    ELSE IF trailing_active(peak, buy_price)
            /\ Px(day_low) <= trailing_price(buy_price) THEN "trailing_stop"
    ELSE IF held >= MAX_HOLDING_DAYS THEN "timeout"
    ELSE "none"

\* variant: the commission is left out of the affordable price
gross_price_no_commission(exec_price) == exec_price * 40

\* exec_price * (1 + COMMISSION_RATE), as money per share: the whole part of
\* exec_price * (100000 + COMMISSION_RATE) / 2500, the product split in two
gross_price(exec_price) ==
    exec_price * 40 + (exec_price * COMMISSION_RATE) \div 2500

\* variant: rounding up to whole lots
max_shares_rounded_up(c, exec_price) ==
    (((c \div gross_price(exec_price)) + (LOT - 1)) \div LOT) * LOT

\* variant: no rounding down to whole lots
max_shares_unrounded(c, exec_price) == c \div gross_price(exec_price)

\* max_shares of the all-in buy: int(cash / gross price), rounded down to lots
max_shares(c, exec_price) == ((c \div gross_price(exec_price)) \div LOT) * LOT

\* variant: a buy signal is taken whatever the holding
buy_allowed_always(sig, n) == sig = "buy"

\* "if sig == 'buy' and self.shares == 0"
buy_allowed(sig, n) == sig = "buy" /\ n = 0

\* "elif sig == 'sell' and self.shares > 0 and self.pending_buy is not None"
sell_allowed(sig, n, pb) == sig = "sell" /\ n > 0 /\ pb # None

\* variant: the loop starts one bar early
first_index_early(s_idx) == IF s_idx > 0 THEN s_idx - 1 ELSE s_idx

\* the first value of the loop index: range(start_idx, ...)
first_index(s_idx) == s_idx

\* variant: the risk-control exits do not skip the signal block
signal_reached_always(fired) == TRUE

\* the signal block is reached only when no risk-control exit "continue"d
signal_reached(fired) == fired = "none"

\* ------------------------------------------------------------- get_metrics
Frac(n, d) == [num |-> n, den |-> d]

RECURSIVE GCD(_, _)
GCD(a, b) == IF b = 0 THEN a ELSE GCD(b, a % b)

Abs(x) == IF x < 0 THEN 0 - x ELSE x

\* a fraction with a positive denominator, in lowest terms
Reduce(n, d) ==
    LET g == GCD(Abs(n), Abs(d))
        sgn == IF d < 0 THEN 0 - 1 ELSE 1
    IN  IF g = 0 THEN Frac(n, d) ELSE Frac(sgn * (n \div g), sgn * (d \div g))

FracAdd(x, y) ==
    LET g == GCD(x.den, y.den)
    IN  Reduce(x.num * (y.den \div g) + y.num * (x.den \div g),
               x.den * (y.den \div g))

RECURSIVE FracGT(_, _, _, _)
\* a/b > c/d for a, c >= 0 and b, d > 0, without forming the cross products
FracGT(a, b, c, d) ==
    IF a \div b # c \div d THEN a \div b > c \div d
    ELSE IF a % b = 0 THEN FALSE
    ELSE IF c % d = 0 THEN TRUE
    ELSE FracGT(d, c % d, b, a % b)

NotCalled == [status |-> "not_called"]

\* variant: the growth ratio is reported as the return
total_return_ratio(final_equity, capital) == Reduce(final_equity, capital)

\* (final_equity / initial_capital - 1) * 100
total_return(final_equity, capital) ==
    Reduce((final_equity - capital) * 100, capital)

\* (peak - e) / peak * 100
drawdown(peak, e) == Reduce((peak - e) * 100, peak)

RECURSIVE max_dd_from(_, _, _, _)
\* the max-drawdown loop over equities[k..], with the running peak and maximum
max_dd_from(equities, k, peak, max_dd) ==
    IF k > Len(equities) THEN max_dd
    ELSE LET e == equities[k]
             pk == IF e > peak THEN e ELSE peak
             dd == drawdown(pk, e)
         IN  max_dd_from(equities, k + 1, pk,
                 IF FracGT(dd.num, dd.den, max_dd.num, max_dd.den)
                 THEN dd ELSE max_dd)

max_drawdown(equities) == max_dd_from(equities, 1, equities[1], Frac(0, 1))

\* variant: a trade that breaks even is a win
is_win_or_even(pnl) == pnl.num >= 0

\* t['pnl_pct'] > 0
is_win(pnl) == pnl.num > 0

\* t['pnl_pct'] <= 0
is_loss(pnl) == pnl.num <= 0

RECURSIVE sum_pnl(_)
\* sum(t['pnl_pct'] for t in ts)
sum_pnl(ts) ==
    IF ts = <<>> THEN Frac(0, 1)
    ELSE FracAdd(Reduce(ts[1].pnl_pct.num, ts[1].pnl_pct.den), sum_pnl(Tail(ts)))

\* variant: without losses the factor is reported as 0
profit_factor_zero_without_loss(total_profit, total_loss) ==
    IF total_loss.num > 0
    THEN [inf |-> FALSE,
          value |-> Reduce(total_profit.num * total_loss.den,
                           total_profit.den * total_loss.num)]
    ELSE [inf |-> FALSE, value |-> Frac(0, 1)]

\* total_profit / total_loss if total_loss > 0 else inf if total_profit > 0 else 0
profit_factor(total_profit, total_loss) ==
    IF total_loss.num > 0
    THEN [inf |-> FALSE,
          value |-> Reduce(total_profit.num * total_loss.den,
                           total_profit.den * total_loss.num)]
    ELSE IF total_profit.num > 0 THEN [inf |-> TRUE, value |-> Frac(0, 1)]
    ELSE [inf |-> FALSE, value |-> Frac(0, 1)]

\* the ZeroDivisionError / IndexError cases of get_metrics, for equities >= 0
metrics_raise ==
    \/ initial_capital = 0
    \/ start_idx >= Len(df)
    \/ equity_curve[1].equity = 0

\* the dictionary get_metrics returns
metrics_record ==
    LET equities == [k \in 1..Len(equity_curve) |-> equity_curve[k].equity]
        final_equity == equities[Len(equities)]
        wins == SelectSeq(trades, LAMBDA t : is_win(t.pnl_pct))
        losses == SelectSeq(trades, LAMBDA t : is_loss(t.pnl_pct))
        total_profit == IF wins # <<>> THEN sum_pnl(wins) ELSE Frac(0, 1)
        sum_loss == sum_pnl(losses)
        total_loss == IF losses # <<>>
                      THEN Frac(Abs(sum_loss.num), sum_loss.den) ELSE Frac(0, 1)
    IN  [status |-> "ok",
         total_return |-> total_return(final_equity, initial_capital),
         max_drawdown |-> max_drawdown(equities),
         win_rate |-> IF trades # <<>>
                      THEN Reduce(Len(wins) * 100, Len(trades)) ELSE Frac(0, 1),
         wins |-> Len(wins),
         losses |-> Len(losses),
         total_trades |-> Len(trades),
         profit_factor |-> profit_factor(total_profit, total_loss),
         buy_hold_return |->
             Reduce((df[Len(df)].close - iloc(df, start_idx).close) * 100,
                    iloc(df, start_idx).close),
         final_equity |-> final_equity]

\* ------------------------------------------------------------------ inputs
BarSet ==
    { Bar(100, 100, 100, 100),      \* flat
      Bar(100, 102, 100, 102),      \* rises 2%
      Bar(101, 101, 101, 101),      \* flat at +1%
      Bar(98, 99, 97, 97) }         \* falls to -3%

SigSet == { Sig("buy"), Sig("sell"), Sig("none") }

\* initial capital, in money units: 10000 and 20150 ticks
Capitals == { 10000 * 4000, 20150 * 4000 }

\* every short series, with signal series of equal or smaller length
InitShort ==
    \E n \in 0..MaxBars :
        /\ \E bars \in [1..n -> BarSet] : df = WithDates(bars)
        /\ \E m \in 0..n : signals \in [1..m -> SigSet]
        /\ start_idx \in 0..MaxStart
        /\ initial_capital \in Capitals

FlatBar == Bar(100, 100, 100, 100)

MaxTrades == 3

MaxPoints == 3

DIVERGENCE_LOOKBACK == 30

LongLen == MAX_HOLDING_DAYS + 2 + HoldSlack

\* the last bars of a long series, where the holding period runs out
LateBars == (LongLen - 3)..LongLen

\* long series: flat but for one late bar; a buy signal at the start and at
\* most one other late signal
InitLong ==
    \E b \in 0..HoldSlack, k \in LateBars, shape \in BarSet,
       s \in {0} \cup LateBars, other \in {"buy", "sell"} :
        /\ df = WithDates([j \in 1..LongLen |-> IF j = k THEN shape ELSE FlatBar])
        /\ signals = [j \in 1..LongLen |->
                        IF j = b + 1 THEN Sig("buy")
                        ELSE IF j = s THEN Sig(other) ELSE Sig("none")]
        /\ start_idx = 0
        /\ initial_capital = 20150 * 4000

\* four-bar series that may keep rising after the entry; one buy signal
InitRise ==
    /\ \E bars \in [1..4 -> BarSet \cup {Bar(103, 104, 102, 104)}] :
           df = WithDates(bars)
    /\ signals = [j \in 1..4 |-> IF j = 1 THEN Sig("buy") ELSE Sig("none")]
    /\ start_idx = 0
    /\ initial_capital = 20150 * 4000

\* prices a thousand ticks high, one tick apart
FineBars == {Bar(1000, 1000, 1000, 1000), Bar(1001, 1001, 1001, 1001)}

\* three-bar series of finely spaced prices; a buy signal, then a sell signal
InitFine ==
    /\ df \in {WithDates(bars) : bars \in [1..3 -> FineBars]}
    /\ signals = <<Sig("buy"), Sig("sell"), Sig("none")>>
    /\ start_idx = 0
    /\ initial_capital = 101000 * 4000

\* TradeSimulator.__init__ and the first two statements of execute_signals
Init ==
    /\ (InitShort \/ InitLong \/ InitRise \/ InitFine)
    /\ cash = initial_capital
    /\ shares = 0
    /\ trades = <<>>
    /\ pending_buy = None
    /\ equity_curve = <<>>
    /\ peak_price = 0
    /\ holding_days = 0
    /\ i = first_index(start_idx)
    /\ pc = "loop"
    /\ metrics = NotCalled

\* --------------------------------------------------------- execute_signals
InLoop == pc = "loop" /\ i < Len(df) - 1

holding == shares > 0 /\ pending_buy # None

\* values of one loop iteration, after the risk-control block's updates
held_now == IF holding THEN holding_days + 1 ELSE holding_days

peak_now == IF holding THEN updated_peak(peak_price, exec_day(i).high) ELSE peak_price

fired_now ==
    IF holding
    THEN risk_exit(pending_buy[1].buy_price, peak_now, exec_day(i).low, held_now)
    ELSE "none"

point(date, equity) == [date |-> date, equity |-> equity]

\* a risk-control exit: _close_position, reset, equity point, continue
RiskClose(sell_at, reason) ==
    /\ cash' = close_cash(sell_at)
    /\ trades' = Append(trades, close_trade(sell_at, exec_day(i).date, reason))
    /\ shares' = 0
    /\ pending_buy' = None
    /\ peak_price' = 0
    /\ holding_days' = 0
    /\ equity_curve' = Append(equity_curve,
           point(exec_day(i).date, equity_of(cash', shares', exec_day(i).close)))
    /\ i' = i + 1
    /\ UNCHANGED <<inputs, metrics, pc>>

StopLoss ==
    /\ InLoop /\ holding /\ fired_now = "stop_loss"
    /\ RiskClose(stop_loss_price(pending_buy[1].buy_price), "stop_loss")

TrailingStop ==
    /\ InLoop /\ holding /\ fired_now = "trailing_stop"
    /\ RiskClose(trailing_price(pending_buy[1].buy_price), "trailing_stop")

Timeout ==
    /\ InLoop /\ holding /\ fired_now = "timeout"
    /\ RiskClose(Px(exec_day(i).open), "timeout")

\* signals.iloc[i] beyond the end of the signal series raises IndexError
RaiseIndexError ==
    /\ InLoop /\ signal_reached(fired_now)
    /\ i >= Len(signals)
    /\ holding_days' = held_now
    /\ peak_price' = peak_now
    /\ pc' = "raised"
    /\ UNCHANGED <<inputs, metrics, cash, shares, trades, pending_buy, equity_curve, i>>

SignalStep == InLoop /\ signal_reached(fired_now) /\ i < Len(signals)

\* buy signal, but less than one lot affordable
BuySkip ==
    /\ SignalStep
    /\ buy_allowed(iloc(signals, i).signal, shares)
    /\ max_shares(cash, Px(exec_day(i).open)) <= 0
    /\ equity_curve' = Append(equity_curve, point(exec_day(i).date, cash))
    /\ holding_days' = held_now
    /\ peak_price' = peak_now
    /\ i' = i + 1
    /\ UNCHANGED <<inputs, metrics, cash, shares, trades, pending_buy, pc>>

Buy ==
    /\ SignalStep
    /\ buy_allowed(iloc(signals, i).signal, shares)
    /\ LET exec_price == Px(exec_day(i).open)
           n == max_shares(cash, exec_price)
       IN  /\ n > 0
           /\ cash' = cash - (Money(exec_price, n) + _buy_cost(exec_price, n))
           /\ shares' = n
           /\ pending_buy' = << [buy_date |-> exec_day(i).date,
                                 buy_price |-> exec_price,
                                 shares |-> n,
                                 reason |-> iloc(signals, i).reason] >>
    /\ peak_price' = Px(exec_day(i).high)
    /\ holding_days' = 0
    /\ equity_curve' = Append(equity_curve,
           point(exec_day(i).date, equity_of(cash', shares', exec_day(i).close)))
    /\ i' = i + 1
    /\ UNCHANGED <<inputs, metrics, trades, pc>>

Sell ==
    /\ SignalStep
    /\ ~ buy_allowed(iloc(signals, i).signal, shares)
    /\ sell_allowed(iloc(signals, i).signal, shares, pending_buy)
    /\ cash' = close_cash(Px(exec_day(i).open))
    /\ trades' = Append(trades, close_trade(Px(exec_day(i).open),
                                            exec_day(i).date,
                                            iloc(signals, i).reason))
    /\ shares' = 0
    /\ pending_buy' = None
    /\ peak_price' = 0
    /\ holding_days' = 0
    /\ equity_curve' = Append(equity_curve,
           point(exec_day(i).date, equity_of(cash', shares', exec_day(i).close)))
    /\ i' = i + 1
    /\ UNCHANGED <<inputs, metrics, pc>>

\* no signal, or a signal that does not apply: only the equity point
NoTrade ==
    /\ SignalStep
    /\ ~ buy_allowed(iloc(signals, i).signal, shares)
    /\ ~ sell_allowed(iloc(signals, i).signal, shares, pending_buy)
    /\ holding_days' = held_now
    /\ peak_price' = peak_now
    /\ equity_curve' = Append(equity_curve,
           point(exec_day(i).date, equity_of(cash, shares, exec_day(i).close)))
    /\ i' = i + 1
    /\ UNCHANGED <<inputs, metrics, cash, shares, trades, pending_buy, pc>>

LoopDone == pc = "loop" /\ ~ (i < Len(df) - 1)

\* variant: the last bar's point is appended whatever the curve holds
last_missing_any == Len(df) > 0

\* variant: the last bar's point is appended only after other points
last_missing_after_points ==
    IF Len(df) > 0 /\ equity_curve # <<>>
    THEN equity_curve[Len(equity_curve)].date # df[Len(df)].date
    ELSE FALSE

last_missing ==
    IF Len(df) > 0
    THEN IF equity_curve = <<>> THEN TRUE
         ELSE equity_curve[Len(equity_curve)].date # df[Len(df)].date
    ELSE FALSE

\* the last bar's equity point, when the loop has not recorded it
FinalAppend ==
    /\ LoopDone /\ last_missing
    /\ equity_curve' = Append(equity_curve,
           point(df[Len(df)].date, equity_of(cash, shares, df[Len(df)].close)))
    /\ pc' = "done"
    /\ UNCHANGED <<inputs, metrics, cash, shares, trades, pending_buy, peak_price,
                   holding_days, i>>

\* variant: a position still open at the end is sold at the last close
FinalNoAppend_force_close ==
    /\ LoopDone /\ ~ last_missing
    /\ pc' = "done"
    /\ IF holding
       THEN /\ cash' = close_cash(Px(df[Len(df)].close))
            /\ trades' = Append(trades, close_trade(Px(df[Len(df)].close),
                                                    df[Len(df)].date,
                                                    "end_of_backtest"))
            /\ shares' = 0
            /\ pending_buy' = None
       ELSE UNCHANGED <<cash, shares, trades, pending_buy>>
    /\ UNCHANGED <<inputs, metrics, equity_curve, peak_price, holding_days, i>>

FinalNoAppend ==
    /\ LoopDone /\ ~ last_missing
    /\ pc' = "done"
    /\ UNCHANGED <<inputs, metrics, cash, shares, trades, pending_buy, equity_curve,
                   peak_price, holding_days, i>>

\* ------------------------------------------------------------- get_metrics
Returned == pc = "done" /\ metrics = NotCalled

sim_state == <<cash, shares, trades, pending_buy, equity_curve, peak_price,
               holding_days, i, pc>>

sim_state_but_pc == <<cash, shares, trades, pending_buy, equity_curve,
                      peak_price, holding_days, i>>

\* "if not self.equity_curve: return {}"
GetMetricsEmpty ==
    /\ Returned /\ equity_curve = <<>>
    /\ metrics' = [status |-> "empty"]
    /\ UNCHANGED <<inputs, sim_state>>

GetMetricsRaise ==
    /\ Returned /\ equity_curve # <<>>
    /\ metrics_raise
    /\ metrics' = [status |-> "raised"]
    /\ UNCHANGED <<inputs, sim_state>>

GetMetrics ==
    /\ Returned /\ equity_curve # <<>>
    /\ ~ metrics_raise
    /\ metrics' = metrics_record
    /\ UNCHANGED <<inputs, sim_state>>

Next ==
    \/ StopLoss
    \/ TrailingStop
    \/ Timeout
    \/ RaiseIndexError
    \/ BuySkip
    \/ Buy
    \/ Sell
    \/ NoTrade
    \/ FinalAppend
    \/ FinalNoAppend
    \/ GetMetricsEmpty
    \/ GetMetricsRaise
    \/ GetMetrics

Spec == Init /\ [][Next]_vars

\* ------------------------------------------- get_metrics on its own inputs
SeqsUpTo(S, n) == UNION {[1..m -> S] : m \in 0..n}

MetricsCapital == 1000 * 4000

EquitySet == {900 * 4000, 1000 * 4000, 1100 * 4000}

PnlSet == {0 - 3, 0, 1, 2}

\* a closed trade bought at 100 and sold pnl ticks higher
TradeOf(pnl) ==
    [buy_date |-> 0,
     buy_price |-> Px(100),
     sell_date |-> 1,
     sell_price |-> Px(100 + pnl),
     shares |-> LOT,
     pnl_pct |-> pnl_pct(Px(100 + pnl), Px(100)),
     buy_reason |-> "MACD_golden_cross",
     sell_reason |-> "MACD_death_cross"]

\* a finished simulator: a trade log and an equity curve, about to be measured
MetricsInit ==
    /\ \E n \in 1..2 :
          /\ df = WithDates([k \in 1..n |-> FlatBar])
          /\ signals = [k \in 1..n |-> Sig("none")]
          /\ start_idx \in (2 - n)..1
    /\ initial_capital = MetricsCapital
    /\ trades \in SeqsUpTo({TradeOf(p) : p \in PnlSet}, MaxTrades)
    /\ \E es \in SeqsUpTo(EquitySet, MaxPoints) :
          /\ es = <<>> => trades = <<>>
          /\ equity_curve = [k \in 1..Len(es) |-> point(k - 1, es[k])]
          /\ cash = IF es = <<>> THEN initial_capital ELSE es[Len(es)]
    /\ shares = 0
    /\ pending_buy = None
    /\ peak_price = 0
    /\ holding_days = 0
    /\ i = first_index(start_idx)
    /\ pc = "done"
    /\ metrics = NotCalled

MetricsNext ==
    \/ GetMetricsEmpty
    \/ GetMetricsRaise
    \/ GetMetrics

MetricsSpec == MetricsInit /\ [][MetricsNext]_vars

\* -------------------------------------------------------- signal generators
\* A row of the indicator frame.  MACD = 2 * (DIF - DEA) and J = 3K - 2D as
\* calculate_macd and calculate_kdj define them; a column that may be NaN
\* holds <<>> for NaN and <<v>> for the number v.
NaN == <<>>

Num(v) == <<v>>

isnan(x) == x = NaN

Has(seq, x) == \E n \in 1..Len(seq) : seq[n] = x

Row(dif, dea, k, d, rsi, ma5, ma10, ma20, vol_ma5, volume, close) ==
    [DIF |-> dif, DEA |-> dea, MACD |-> 2 * (dif - dea),
     K |-> k, D |-> d, J |-> 3 * k - 2 * d,
     RSI |-> rsi, MA5 |-> ma5, MA10 |-> ma10, MA20 |-> ma20,
     VOL_MA5 |-> vol_ma5, volume |-> volume, close |-> close,
     MACD_divergence |-> "none"]

DoubleGolden == "MACD_KDJ_double_golden"

DoubleDeath == "MACD_KDJ_double_death"

WeakTrend == "weak_trend"

macd_golden(cur, prev) == cur.DIF > cur.DEA /\ prev.DIF <= prev.DEA

macd_death(cur, prev) == cur.DIF < cur.DEA /\ prev.DIF >= prev.DEA

kdj_golden(cur, prev) == cur.K > cur.D /\ prev.K <= prev.D

kdj_death(cur, prev) == cur.K < cur.D /\ prev.K >= prev.D

When(cond, reason) == IF cond THEN <<reason>> ELSE <<>>

\* buy_reasons before the trend guard
buy_reasons(cur, prev) ==
    When(macd_golden(cur, prev), "MACD_golden_cross")
    \o When(kdj_golden(cur, prev) /\ cur.J < 30, "KDJ_low_golden_cross")
    \o When(macd_golden(cur, prev) /\ kdj_golden(cur, prev), DoubleGolden)

sell_reasons(cur, prev) ==
    When(macd_death(cur, prev), "MACD_death_cross")
    \o When(kdj_death(cur, prev) /\ cur.J > 70, "KDJ_high_death_cross")
    \o When(macd_death(cur, prev) /\ kdj_death(cur, prev), DoubleDeath)

\* variant: a missing MA20 counts as a trend below the price never reached
price_above_ma20_strict(cur) ==
    IF isnan(cur.MA20) THEN FALSE ELSE cur.close > cur.MA20[1]

price_above_ma20(cur) ==
    LET ma20 == IF ~ isnan(cur.MA20) THEN cur.MA20[1] ELSE 0
    IN  IF ma20 > 0 THEN cur.close > ma20 ELSE TRUE

\* variant: the guard keeps the double golden cross without marking it
guarded_buy_reasons_unmarked(cur, prev) ==
    LET b == buy_reasons(cur, prev)
    IN  IF b # <<>> /\ ~ price_above_ma20(cur)
        THEN IF ~ Has(b, DoubleGolden) THEN <<>> ELSE b
        ELSE b

\* buy_reasons after the MA20 trend guard
guarded_buy_reasons(cur, prev) ==
    LET b == buy_reasons(cur, prev)
    IN  IF b # <<>> /\ ~ price_above_ma20(cur)
        THEN IF ~ Has(b, DoubleGolden) THEN <<>> ELSE Append(b, WeakTrend)
        ELSE b

NoSignal == [signal |-> "none", reason |-> <<>>]

\* the signal of one day of strategy_a_signals
signal_a(cur, prev) ==
    LET b == guarded_buy_reasons(cur, prev)
        s == sell_reasons(cur, prev)
    IN  IF b # <<>> /\ s = <<>> THEN [signal |-> "buy", reason |-> b]
        ELSE IF s # <<>> /\ b = <<>> THEN [signal |-> "sell", reason |-> s]
        ELSE IF b # <<>> /\ s # <<>>
             THEN IF Has(b, DoubleGolden) THEN [signal |-> "buy", reason |-> b]
                  ELSE IF Has(s, DoubleDeath)
                       THEN [signal |-> "sell", reason |-> s]
                       ELSE NoSignal
        ELSE NoSignal

strategy_a_signals(frame) ==
    [n \in 1..Len(frame) |->
        IF n - 1 >= 1 THEN signal_a(frame[n], frame[n - 1]) ELSE NoSignal]

\* ---- _score_day: each component gives [b, s, r] = buy points, sell points,
\* reasons
Min(a, b) == IF a < b THEN a ELSE b

Score(b, s, r) == [b |-> b, s |-> s, r |-> r]

\* cross / confirmed cross / standing side of DIF against DEA
macd_cross_score(cur, prev, prev2) ==
    IF cur.DIF > cur.DEA
    THEN IF prev.DIF <= prev.DEA THEN Score(5, 0, <<"MACD_golden_cross">>)
         ELSE IF prev.DIF > prev.DEA /\ prev2.DIF <= prev2.DEA
              THEN Score(4, 0, <<"MACD_golden_cross_confirmed">>)
              ELSE Score(2, 0, <<>>)
    ELSE IF prev.DIF >= prev.DEA THEN Score(0, 5, <<"MACD_death_cross">>)
         ELSE IF prev.DIF < prev.DEA /\ prev2.DIF >= prev2.DEA
              THEN Score(0, 4, <<"MACD_death_cross_confirmed">>)
              ELSE Score(0, 2, <<>>)

macd_zero_axis_score(cur, prev) ==
    IF cur.DIF > 0 THEN Score(1, 0, <<>>)
    ELSE IF cur.DIF < 0
         THEN IF cur.DIF > cur.DEA /\ prev.DIF <= prev.DEA
              THEN Score(2, 0, <<>>) ELSE Score(0, 1, <<>>)
         ELSE Score(0, 0, <<>>)

macd_bar_score(cur, prev) ==
    IF cur.MACD > prev.MACD THEN Score(1, 0, <<>>) ELSE Score(0, 1, <<>>)

divergence_score(cur) ==
    IF cur.MACD_divergence = "bottom" THEN Score(3, 0, <<"MACD_bottom_divergence">>)
    ELSE IF cur.MACD_divergence = "top" THEN Score(0, 3, <<"MACD_top_divergence">>)
    ELSE Score(0, 0, <<>>)

\* the MACD component, capped at 7
macd_score(cur, prev, prev2) ==
    LET c == macd_cross_score(cur, prev, prev2)
        z == macd_zero_axis_score(cur, prev)
        h == macd_bar_score(cur, prev)
        v == divergence_score(cur)
    IN  Score(Min(7, c.b + z.b + h.b + v.b), Min(7, c.s + z.s + h.s + v.s),
              c.r \o z.r \o h.r \o v.r)

kdj_cross_score(cur, prev) ==
    IF cur.K > cur.D /\ prev.K <= prev.D THEN Score(4, 0, <<"KDJ_golden_cross">>)
    ELSE IF cur.K < cur.D /\ prev.K >= prev.D
         THEN Score(0, 4, <<"KDJ_death_cross">>)
         ELSE IF cur.K > cur.D THEN Score(1, 0, <<>>) ELSE Score(0, 1, <<>>)

kdj_zone_score(cur) ==
    IF cur.J < 0 THEN Score(3, 0, <<>>)
    ELSE IF cur.J < 20 THEN Score(3, 0, <<"KDJ_oversold">>)
    ELSE IF cur.J > 100 THEN Score(0, 3, <<>>)
    ELSE IF cur.J > 80 THEN Score(0, 3, <<"KDJ_overbought">>)
    ELSE IF cur.J < 50 THEN Score(1, 0, <<>>)
    ELSE Score(0, 1, <<>>)

kdj_zone_cross_score(cur, prev) ==
    IF cur.J < 30 /\ cur.K > cur.D /\ prev.K <= prev.D
    THEN Score(2, 0, <<"KDJ_low_golden_cross">>)
    ELSE IF cur.J > 70 /\ cur.K < cur.D /\ prev.K >= prev.D
         THEN Score(0, 2, <<"KDJ_high_death_cross">>)
         ELSE Score(0, 0, <<>>)

\* the KDJ component, capped at 7
kdj_score(cur, prev) ==
    LET c == kdj_cross_score(cur, prev)
        z == kdj_zone_score(cur)
        x == kdj_zone_cross_score(cur, prev)
    IN  Score(Min(7, c.b + z.b + x.b), Min(7, c.s + z.s + x.s),
              c.r \o z.r \o x.r)

rsi_score(cur) ==
    IF cur.RSI < 30 THEN Score(2, 0, <<>>)
    ELSE IF cur.RSI > 70 THEN Score(0, 2, <<>>)
    ELSE IF cur.RSI < 45 THEN Score(1, 0, <<>>)
    ELSE IF cur.RSI > 55 THEN Score(0, 1, <<>>)
    ELSE Score(0, 0, <<>>)

ma_score(cur) ==
    IF ~ isnan(cur.MA5) /\ ~ isnan(cur.MA10)
    THEN IF cur.close > cur.MA5[1] /\ cur.MA5[1] > cur.MA10[1]
         THEN Score(2, 0, <<>>)
         ELSE IF cur.close < cur.MA5[1] /\ cur.MA5[1] < cur.MA10[1]
              THEN Score(0, 2, <<>>)
              ELSE Score(0, 0, <<>>)
    ELSE Score(0, 0, <<>>)

\* vol_ratio > 1.5 with change_pct > 0 or not; a NaN or zero VOL_MA5 is skipped
volume_score(cur, prev) ==
    IF ~ isnan(cur.VOL_MA5) /\ cur.VOL_MA5[1] > 0
    THEN IF cur.volume * 2 > cur.VOL_MA5[1] * 3
         THEN IF cur.close > prev.close THEN Score(2, 0, <<>>)
              ELSE Score(0, 2, <<>>)
         ELSE Score(0, 0, <<>>)
    ELSE Score(0, 0, <<>>)

resonance_score(cur, prev) ==
    IF macd_golden(cur, prev) /\ kdj_golden(cur, prev)
    THEN Score(3, 0, <<"double_golden">>)
    ELSE IF macd_death(cur, prev) /\ kdj_death(cur, prev)
         THEN Score(0, 3, <<"double_death">>)
         ELSE IF cur.DIF > cur.DEA /\ kdj_golden(cur, prev) /\ cur.J < 30
              THEN Score(2, 0, <<>>)
              ELSE IF cur.DIF < cur.DEA /\ kdj_death(cur, prev) /\ cur.J > 70
                   THEN Score(0, 2, <<>>)
                   ELSE Score(0, 0, <<>>)

\* the MA20 trend guard of row idx (0-based) of the frame
ma20_score(frame, idx) ==
    LET cur == iloc(frame, idx)
    IN  IF isnan(cur.MA20) THEN Score(0, 0, <<>>)
        ELSE LET below == cur.close < cur.MA20[1]
                 falling == /\ idx >= 5
                            /\ ~ isnan(iloc(frame, idx - 5).MA20)
                            /\ cur.MA20[1] < iloc(frame, idx - 5).MA20[1]
             IN  Score(0,
                       (IF below THEN 2 ELSE 0) + (IF falling THEN 1 ELSE 0),
                       When(below, "price_below_MA20")
                       \o When(falling /\ below, "MA20_falling"))

\* (buy_score, sell_score, reason) of row idx (0-based)
_score_day(frame, idx) ==
    IF idx < 2 THEN Score(0, 0, <<>>)
    ELSE LET cur == iloc(frame, idx)
             prev == iloc(frame, idx - 1)
             prev2 == iloc(frame, idx - 2)
             m == macd_score(cur, prev, prev2)
             k == kdj_score(cur, prev)
             r == rsi_score(cur)
             a == ma_score(cur)
             v == volume_score(cur, prev)
             x == resonance_score(cur, prev)
             g == ma20_score(frame, idx)
         IN  Score(Min(20, m.b + k.b + r.b + a.b + v.b + x.b + g.b),
                   Min(20, m.s + k.s + r.s + a.s + v.s + x.s + g.s),
                   m.r \o k.r \o r.r \o a.r \o v.r \o x.r \o g.r)

\* variant: a buy needs only to reach the threshold
signal_b_threshold_only(sc) ==
    IF sc.b >= 10 THEN [signal |-> "buy", reason |-> <<sc.b, sc.s>> \o sc.r]
    ELSE IF sc.s >= 10 /\ sc.s > sc.b
         THEN [signal |-> "sell", reason |-> <<sc.b, sc.s>> \o sc.r]
         ELSE NoSignal

\* the signal strategy_b_signals derives from the scores of a day
signal_b(sc) ==
    IF sc.b >= 10 /\ sc.b > sc.s
    THEN [signal |-> "buy", reason |-> <<sc.b, sc.s>> \o sc.r]
    ELSE IF sc.s >= 10 /\ sc.s > sc.b
         THEN [signal |-> "sell", reason |-> <<sc.b, sc.s>> \o sc.r]
         ELSE NoSignal

strategy_b_signals(frame) ==
    [n \in 1..Len(frame) |->
        IF n - 1 >= 2 THEN signal_b(_score_day(frame, n - 1)) ELSE NoSignal]

\* ---- calculate_indicators: the rolling MACD_divergence column
\* position n (1-based) of the window is a local low / high of the close
is_price_low(w, n) ==
    /\ w[n].close < w[n - 1].close /\ w[n].close < w[n - 2].close
    /\ w[n].close <= w[n + 1].close /\ w[n].close <= w[n + 2].close

is_price_high(w, n) ==
    /\ w[n].close > w[n - 1].close /\ w[n].close > w[n - 2].close
    /\ w[n].close >= w[n + 1].close /\ w[n].close >= w[n + 2].close

Last(K) == CHOOSE n \in K : \A m \in K : m <= n

\* range(2, len(window) - 2), 1-based
scan_range(w) == 3..(Len(w) - 2)

_detect_divergence(w) ==
    IF Len(w) < 7 THEN "none"
    ELSE LET lows == {n \in scan_range(w) : is_price_low(w, n)}
             highs == {n \in scan_range(w) : is_price_high(w, n)}
             bottom ==
                 /\ Cardinality(lows) >= 2
                 /\ LET last == Last(lows)
                        prev == Last(lows \ {last})
                    IN  /\ w[last].close < w[prev].close
                        /\ w[last].DIF > w[prev].DIF
             top ==
                 /\ Cardinality(highs) >= 2
                 /\ LET last == Last(highs)
                        prev == Last(highs \ {last})
                    IN  /\ w[last].close > w[prev].close
                        /\ w[last].DIF < w[prev].DIF
         IN  IF top THEN "top" ELSE IF bottom THEN "bottom" ELSE "none"

\* variant: the window is centred two rows later, where the frame has them
divergence_window_ahead(frame, idx) ==
    SubSeq(frame, idx + 1 - DIVERGENCE_LOOKBACK + 2, Min(idx + 3, Len(frame)))

\* df.iloc[idx - 30:idx + 1]
divergence_window(frame, idx) ==
    SubSeq(frame, idx + 1 - DIVERGENCE_LOOKBACK, idx + 1)

\* the frame with its MACD_divergence column filled in
calculate_indicators(frame) ==
    [n \in 1..Len(frame) |->
        IF n - 1 >= DIVERGENCE_LOOKBACK
        THEN [frame[n] EXCEPT !.MACD_divergence =
                  _detect_divergence(divergence_window(frame, n - 1))]
        ELSE frame[n]]

\* ---- indicator frames the generators are run on
\* (DIF, DEA) and (K, D) of the scored row and of the rows before it
CurMACD == {<<1, 0>>, <<0 - 1, 0>>, <<1, 2>>, <<0 - 1, 0 - 2>>, <<3, 1>>}

PrevMACD == {<<0 - 1, 0>>, <<0, 0>>, <<1, 0>>}

Prev2MACD == {<<0 - 1, 0>>, <<1, 0>>}

CurKD == {<<12, 10>>, <<22, 20>>, <<50, 45>>, <<80, 82>>, <<90, 92>>,
          <<50, 55>>, <<10, 20>>, <<95, 90>>}

PrevKD == {<<40, 50>>, <<50, 50>>, <<60, 50>>}

Profile(rsi, ma5, ma10, ma20, ma20_prev5, vol_ma5, volume, prev_close) ==
    [rsi |-> rsi, ma5 |-> ma5, ma10 |-> ma10, ma20 |-> ma20,
     ma20_prev5 |-> ma20_prev5, vol_ma5 |-> vol_ma5, volume |-> volume,
     prev_close |-> prev_close]

\* RSI, moving averages and volume around a close of 100
Profiles ==
    { Profile(50, NaN, NaN, NaN, NaN, NaN, 100, 100),
      Profile(20, Num(99), Num(98), Num(99), Num(98), Num(100), 200, 99),
      Profile(80, Num(101), Num(102), Num(101), Num(102), Num(100), 200, 101),
      Profile(40, NaN, NaN, Num(100), Num(100), Num(100), 100, 100),
      Profile(60, Num(99), Num(98), Num(101), Num(100), Num(0), 200, 99),
      Profile(20, Num(99), Num(98), Num(101), NaN, Num(100), 200, 99) }

\* a quiet row with a given MA20
Filler(ma20) == Row(0, 0, 50, 50, 50, NaN, NaN, ma20, NaN, 100, 100)

\* six rows: the scored row 5, the two rows before it, and row 0 for the
\* five-day MA20 slope
ShortFrame(c, pv, pv2, kd, pkd, f) ==
    << Filler(f.ma20_prev5), Filler(NaN), Filler(NaN),
       Row(pv2[1], pv2[2], 50, 50, 50, NaN, NaN, NaN, NaN, 100, 100),
       Row(pv[1], pv[2], pkd[1], pkd[2], 50, NaN, NaN, NaN, NaN, 100,
           f.prev_close),
       Row(c[1], c[2], kd[1], kd[2], f.rsi, f.ma5, f.ma10, f.ma20,
           f.vol_ma5, f.volume, 100) >>

ShortFrames ==
    { ShortFrame(c, pv, pv2, kd, pkd, f) :
        c \in CurMACD, pv \in PrevMACD, pv2 \in Prev2MACD,
        kd \in CurKD, pkd \in PrevKD, f \in Profiles }

\* a row of the long frames: oversold, DIF above DEA unless dif <= 0
LongRow(dif, close) == Row(dif, 0, 12, 10, 20, NaN, NaN, NaN, NaN, 100, close)

\* flat, a lower low with a higher DIF, a higher high with a lower DIF, and
\* a drop below that low
LateRows == {LongRow(1, 100), LongRow(0 - 1, 97), LongRow(1, 103),
             LongRow(0 - 3, 96)}

LongFrameLen == DIVERGENCE_LOOKBACK + 3

TailLen == 3

\* the positions whose rows vary
TailRows(len) == (len - TailLen + 1)..len

\* flat frames with a low at row 10 and a high at row 15, then any late rows
LongFrames ==
    { [n \in 1..LongFrameLen |->
          IF n \in TailRows(LongFrameLen) THEN late[n]
          ELSE IF n = 10 THEN LongRow(0 - 2, 98)
          ELSE IF n = 15 THEN LongRow(2, 102)
          ELSE LongRow(1, 100)] :
        late \in [TailRows(LongFrameLen) -> LateRows] }

StrategyInit ==
    /\ df \in ShortFrames \cup LongFrames
    /\ signals = <<>>
    /\ start_idx = 0
    /\ initial_capital = MetricsCapital
    /\ cash = initial_capital
    /\ shares = 0
    /\ trades = <<>>
    /\ pending_buy = None
    /\ equity_curve = <<>>
    /\ peak_price = 0
    /\ holding_days = 0
    /\ i = 0
    /\ pc = "frame"
    /\ metrics = NotCalled

\* df = calculate_indicators(df)
CalculateIndicators ==
    /\ pc = "frame"
    /\ df' = calculate_indicators(df)
    /\ pc' = "indicators"
    /\ UNCHANGED <<signals, start_idx, initial_capital, metrics, sim_state_but_pc>>

\* sig_a = strategy_a_signals(df)
GenerateA ==
    /\ pc = "indicators"
    /\ signals' = strategy_a_signals(df)
    /\ pc' = "signals_a"
    /\ UNCHANGED <<df, start_idx, initial_capital, metrics, sim_state_but_pc>>

\* sig_b = strategy_b_signals(df)
GenerateB ==
    /\ pc = "indicators"
    /\ signals' = strategy_b_signals(df)
    /\ pc' = "signals_b"
    /\ UNCHANGED <<df, start_idx, initial_capital, metrics, sim_state_but_pc>>

StrategyNext ==
    \/ CalculateIndicators
    \/ GenerateA
    \/ GenerateB

StrategySpec == StrategyInit /\ [][StrategyNext]_vars

TypeOK ==
    /\ pc \in {"loop", "done", "raised"}
    /\ shares \in Nat
    /\ i \in Nat

\* ------------------------------------------------------------- properties
RiskReasons == {"stop_loss", "trailing_stop", "timeout"}

\* the bar with a given date, and the bar the current iteration trades on
BarAt(date) == df[date + 1]

NextBar == df[i + 2]

NewTrade == trades'[Len(trades')]

OneTradeClosed == Len(trades') = Len(trades) + 1

RECURSIVE HighestHigh(_, _)
\* the highest intraday high of bars a..b, as a ledger price
HighestHigh(a, b) ==
    IF a >= b THEN Px(BarAt(b).high)
    ELSE LET rest == HighestHigh(a, b - 1)
         IN  IF Px(BarAt(b).high) > rest THEN Px(BarAt(b).high) ELSE rest

\* a position is open at the start of the bar the iteration trades on
OpenAtBar == InLoop /\ shares > 0 /\ pending_buy # None

EntryPrice == pending_buy[1].buy_price

EntryBar == pending_buy[1].buy_date

\* the three risk-control conditions, stated on the price series
StopLossCond == Px(NextBar.low) * 100 <= EntryPrice * 97

TrailingCond ==
    /\ HighestHigh(EntryBar, i + 1) * 100 >= EntryPrice * 102
    /\ Px(NextBar.low) * 100 <= EntryPrice * 101

TimeoutCond == (i + 1) - EntryBar >= MAX_HOLDING_DAYS

RiskCond == StopLossCond \/ TrailingCond \/ TimeoutCond

\* C1: every signal-driven entry and exit is caused by the signal of the bar
\* before its own bar (an index in start_idx..len-2) and is executed on its
\* own bar at that bar's opening price.
SignalAt(date, kind, price, reason) ==
    /\ date - 1 >= start_idx
    /\ date - 1 <= Len(df) - 2
    /\ date - 1 < Len(signals)
    /\ iloc(signals, date - 1).signal = kind
    /\ iloc(signals, date - 1).reason = reason
    /\ price = Px(BarAt(date).open)

C1_ExecutionLag ==
    /\ pending_buy # None =>
          SignalAt(pending_buy[1].buy_date, "buy", pending_buy[1].buy_price,
                   pending_buy[1].reason)
    /\ \A k \in 1..Len(trades) :
          /\ SignalAt(trades[k].buy_date, "buy", trades[k].buy_price,
                      trades[k].buy_reason)
          /\ trades[k].sell_reason \notin RiskReasons =>
                SignalAt(trades[k].sell_date, "sell", trades[k].sell_price,
                         trades[k].sell_reason)

\* a signal-driven round trip whose two execution bars open at prices other
\* than the opens of the bars that carried the signals
C1_Witness ==
    \E k \in 1..Len(trades) :
        /\ trades[k].sell_reason \notin RiskReasons
        /\ BarAt(trades[k].buy_date).open # BarAt(trades[k].buy_date - 1).open
        /\ BarAt(trades[k].sell_date).open # BarAt(trades[k].sell_date - 1).open

\* C2: on a bar where a position is open and a risk-control condition holds,
\* exactly one trade is closed, for a risk-control reason and at the control
\* price, and the bar ends with no position whatever its signal was.
ControlPrice(t) ==
    CASE t.sell_reason = "stop_loss" -> t.sell_price * 100 = t.buy_price * 97
      [] t.sell_reason = "trailing_stop" -> t.sell_price * 100 = t.buy_price * 101
      [] t.sell_reason = "timeout" -> t.sell_price = Px(BarAt(t.sell_date).open)
      [] OTHER -> FALSE

C2_RiskPreempts ==
    [][ (OpenAtBar /\ RiskCond) =>
            /\ OneTradeClosed
            /\ NewTrade.sell_reason \in RiskReasons
            /\ NewTrade.sell_date = NextBar.date
            /\ ControlPrice(NewTrade)
            /\ shares' = 0
            /\ pending_buy' = None
            /\ i' = i + 1 ]_vars

\* a risk-control exit on a bar whose scheduled signal was a buy or a sell
C2_Witness ==
    \E k \in 1..Len(trades) :
        /\ trades[k].sell_reason \in RiskReasons
        /\ trades[k].sell_date - 1 < Len(signals)
        /\ iloc(signals, trades[k].sell_date - 1).signal \in {"buy", "sell"}
        /\ trades[k].sell_price # Px(BarAt(trades[k].sell_date).open)

\* C3: the risk-control checks are decided in the order stop-loss,
\* trailing-stop, timeout, and at most one trade is closed on a bar: the
\* stop-loss condition gives a stop-loss exit whatever the other two are, and
\* the trailing-stop condition without it gives a trailing-stop exit whatever
\* the timeout condition is.
C3_RiskOrder ==
    [][ /\ Len(trades') <= Len(trades) + 1
        /\ (OpenAtBar /\ StopLossCond) =>
              (OneTradeClosed /\ NewTrade.sell_reason = "stop_loss")
        /\ (OpenAtBar /\ ~ StopLossCond /\ TrailingCond) =>
              (OneTradeClosed /\ NewTrade.sell_reason = "trailing_stop")
        /\ (OpenAtBar /\ ~ StopLossCond /\ ~ TrailingCond /\ TimeoutCond) =>
              (OneTradeClosed /\ NewTrade.sell_reason = "timeout") ]_vars

\* a trailing-stop exit on the bar where the holding period also ran out
C3_Witness ==
    \E k \in 1..Len(trades) :
        /\ trades[k].sell_reason = "trailing_stop"
        /\ trades[k].sell_date - trades[k].buy_date >= MAX_HOLDING_DAYS

\* C4: a position open at the start of a bar whose low is at or below 97% of
\* the entry price is closed on that bar at exactly 97% of the entry price,
\* with the stop-loss reason and a pnl_pct of -3.
C4_StopLoss ==
    [][ (OpenAtBar /\ StopLossCond) =>
            /\ OneTradeClosed
            /\ NewTrade.sell_date = NextBar.date
            /\ NewTrade.sell_price * 100 = EntryPrice * 97
            /\ NewTrade.sell_reason = "stop_loss"
            /\ NewTrade.pnl_pct.num = (-3) * NewTrade.pnl_pct.den
            /\ NewTrade.pnl_pct.den > 0
            /\ shares' = 0 ]_vars

\* a stop-loss exit on a bar whose low equals the stop price and whose open
\* is another price
C4_Witness ==
    \E k \in 1..Len(trades) :
        /\ trades[k].sell_reason = "stop_loss"
        /\ Px(BarAt(trades[k].sell_date).low) = trades[k].sell_price
        /\ Px(BarAt(trades[k].sell_date).open) # trades[k].sell_price

C6_Timeout ==
    [][ /\ (OpenAtBar /\ i + 1 = EntryBar + MAX_HOLDING_DAYS
               /\ ~ StopLossCond /\ ~ TrailingCond) =>
              /\ OneTradeClosed
              /\ NewTrade.sell_reason = "timeout"
              /\ NewTrade.sell_date = NextBar.date
              /\ NewTrade.sell_price = Px(NextBar.open)
        /\ (Len(trades') > Len(trades) /\ NewTrade.sell_reason = "timeout") =>
              NewTrade.sell_date = NewTrade.buy_date + MAX_HOLDING_DAYS
        /\ pending_buy' # None =>
              i' < pending_buy'[1].buy_date + MAX_HOLDING_DAYS ]_vars

\* a timeout exit has been recorded
C6_Witness ==
    \E k \in 1..Len(trades) :
        /\ trades[k].sell_reason = "timeout"
        /\ trades[k].sell_date = trades[k].buy_date + MAX_HOLDING_DAYS
        /\ trades[k].sell_price = Px(BarAt(trades[k].sell_date).open)

\* C7: a buy signal processed while shares are held and a sell signal
\* processed while none are held change neither cash, shares, the open
\* position nor the trade log, and the bar's equity point is appended; a
\* position is never replaced by another.
SignalProcessed ==
    InLoop /\ ~ (OpenAtBar /\ RiskCond) /\ i < Len(signals)

C7_NoSecondPosition ==
    [][ /\ (SignalProcessed
               /\ \/ (iloc(signals, i).signal = "buy" /\ shares > 0)
                  \/ (iloc(signals, i).signal = "sell" /\ shares = 0)) =>
              /\ cash' = cash
              /\ shares' = shares
              /\ pending_buy' = pending_buy
              /\ trades' = trades
              /\ Len(equity_curve') = Len(equity_curve) + 1
              /\ SubSeq(equity_curve', 1, Len(equity_curve)) = equity_curve
        /\ (shares > 0 /\ pending_buy' # pending_buy) => pending_buy' = None ]_vars

\* a buy signal has been processed on a bar after the entry bar of the
\* position that is still open, at a price at which a lot was affordable
C7_Witness ==
    /\ pc = "loop"
    /\ pending_buy # None
    /\ i > pending_buy[1].buy_date
    /\ Len(equity_curve) = i - start_idx
    /\ iloc(signals, i - 1).signal = "buy"
    /\ max_shares(cash, Px(BarAt(i).open)) > 0

\* C8: the share count is always a non-negative multiple of the lot size, and
\* every buy acquires a positive multiple of it.
C8_LotAligned ==
    /\ shares >= 0
    /\ shares % 100 = 0
    /\ pending_buy # None =>
          /\ pending_buy[1].shares > 0
          /\ pending_buy[1].shares % 100 = 0
          /\ shares = pending_buy[1].shares
    /\ \A k \in 1..Len(trades) :
          trades[k].shares > 0 /\ trades[k].shares % 100 = 0

\* a buy of two lots where the cash would pay for 203 shares
C8_Witness ==
    /\ pending_buy # None
    /\ shares = 200
    /\ (initial_capital \div gross_price(pending_buy[1].buy_price)) % 100 # 0

C10_EquityIdentity ==
    equity_curve # <<>> =>
        LET last == equity_curve[Len(equity_curve)]
        IN  /\ last.date \in 0..(Len(df) - 1)
            /\ last.equity = cash + BarAt(last.date).close * 100 * shares * 40

\* an equity point recorded while shares are held, on a bar that closes away
\* from its open
C10_Witness ==
    /\ equity_curve # <<>>
    /\ shares > 0
    /\ BarAt(equity_curve[Len(equity_curve)].date).close
          # BarAt(equity_curve[Len(equity_curve)].date).open

\* C11: with start_idx <= n-2, every simulated bar has exactly one equity
\* point: start_idx+1 .. i while the loop runs, n-1-start_idx points once the
\* call has returned, dated start_idx+1 .. n-1 in strictly increasing order.
C11_OnePointPerBar ==
    start_idx <= Len(df) - 2 =>
        /\ Len(equity_curve) = i - start_idx
        /\ pc = "done" => Len(equity_curve) = Len(df) - 1 - start_idx
        /\ \A k \in 1..Len(equity_curve) :
              equity_curve[k].date = BarAt(start_idx + k).date
        /\ \A k \in 1..(Len(equity_curve) - 1) :
              equity_curve[k].date < equity_curve[k + 1].date

\* a finished run over at least two simulated bars, one of which had a
\* risk-control exit
C11_Witness ==
    /\ pc = "done"
    /\ start_idx <= Len(df) - 2
    /\ Len(equity_curve) >= 2
    /\ \E k \in 1..Len(trades) : trades[k].sell_reason \in RiskReasons

\* C12: a buy signal processed with no position and cash below the price of
\* one lot with commission opens nothing, raises nothing, leaves cash and
\* shares alone and records the bar's equity point, equal to the cash.
C12_InsufficientCapital ==
    [][ (SignalProcessed /\ iloc(signals, i).signal = "buy" /\ shares = 0
            /\ cash < NextBar.open * 400100) =>
            /\ cash' = cash
            /\ shares' = 0
            /\ pending_buy' = None
            /\ trades' = trades
            /\ pc' = "loop"
            /\ equity_curve' = Append(equity_curve,
                   [date |-> NextBar.date, equity |-> cash]) ]_vars

\* a buy signal has just been skipped at a price the cash does not reach
C12_Witness ==
    /\ pc = "loop"
    /\ i > start_idx
    /\ Len(equity_curve) = i - start_idx
    /\ i - 1 < Len(signals)
    /\ iloc(signals, i - 1).signal = "buy"
    /\ shares = 0
    /\ trades = <<>>
    /\ cash > 0
    /\ cash < BarAt(i).open * 400100
    /\ equity_curve[Len(equity_curve)].equity = cash

\* C13: leaving the loop sells nothing: cash, shares, the open position and
\* the trade log are as the last bar left them, the log holds only closes by
\* a sell signal or a risk-control exit, and the last equity point marks an
\* open position to the last close.
C13_OpenAtEnd ==
    [][ (pc = "loop" /\ pc' = "done") =>
            /\ trades' = trades
            /\ shares' = shares
            /\ cash' = cash
            /\ pending_buy' = pending_buy
            /\ \A k \in 1..Len(trades') :
                  trades'[k].sell_reason \in RiskReasons \cup {Sig("sell").reason}
            /\ pending_buy' # None =>
                  /\ shares' > 0
                  /\ equity_curve'[Len(equity_curve')].date = df[Len(df)].date
                  /\ equity_curve'[Len(equity_curve')].equity
                        = cash' + df[Len(df)].close * 100 * shares' * 40 ]_vars

\* a run has ended with a position open
C13_Witness ==
    /\ pc = "done"
    /\ pending_buy # None
    /\ shares > 0
    /\ pending_buy[1].buy_date < df[Len(df)].date

\* C14: the loop index never goes below start_idx, nothing has happened to
\* the ledger before the first bar is processed, and every entry bar has
\* index start_idx+1 or more.
C14_WarmUp ==
    /\ i >= start_idx
    /\ (pc = "loop" /\ i = start_idx) =>
          (cash = initial_capital /\ shares = 0 /\ trades = <<>>
              /\ pending_buy = None /\ equity_curve = <<>>)
    /\ pending_buy # None => pending_buy[1].buy_date >= start_idx + 1
    /\ \A k \in 1..Len(trades) : trades[k].buy_date >= start_idx + 1

\* a run with a buy signal in the warm-up and none after it ends untouched
C14_Witness ==
    /\ pc = "done"
    /\ start_idx >= 1
    /\ Len(df) >= start_idx + 2
    /\ Len(signals) = Len(df)
    /\ iloc(signals, 0).signal = "buy"
    /\ trades = <<>>
    /\ shares = 0
    /\ cash = initial_capital

\* C15: with fewer than start_idx+2 bars nothing is raised, there are no
\* trades, cash and shares are untouched, and the curve is empty for an empty
\* series and otherwise the one point (last date, initial capital).
C15_TooShort ==
    Len(df) < start_idx + 2 =>
        /\ pc # "raised"
        /\ trades = <<>>
        /\ cash = initial_capital
        /\ shares = 0
        /\ pending_buy = None
        /\ Len(equity_curve) <= 1
        /\ Len(equity_curve) = 1 =>
              /\ equity_curve[1].equity = initial_capital
              /\ equity_curve[1].date = df[Len(df)].date
        /\ pc = "done" => Len(equity_curve) = (IF Len(df) > 0 THEN 1 ELSE 0)

\* a run over a single bar, with a buy signal on it, has returned
C15_Witness ==
    /\ pc = "done"
    /\ Len(df) = 1
    /\ Len(signals) = 1
    /\ iloc(signals, 0).signal = "buy"
    /\ Len(equity_curve) = 1

\* C16: (as claimed) a signal series shorter than the price series yields an
\* empty result and no error.
C16_MismatchEmptyResult ==
    Len(signals) < Len(df) =>
        /\ pc # "raised"
        /\ pc = "done" => (trades = <<>> /\ Len(equity_curve) <= 1)

\* C17: a buy of s shares at p takes p*s*(1 + 0.00025) from the cash, and a
\* close of s shares at p adds p*s*(1 - 0.00075) to it, whatever closed it.
C17_Costs ==
    [][ /\ (pending_buy = None /\ pending_buy' # None) =>
              /\ shares' = pending_buy'[1].shares
              /\ cash - cash'
                    = pending_buy'[1].buy_price * (shares' \div 100) * 4001
        /\ Len(trades') > Len(trades) =>
              /\ NewTrade.shares = shares
              /\ cash' - cash
                    = NewTrade.sell_price * (NewTrade.shares \div 100) * 3997 ]_vars

\* two lots have been bought and closed by a stop-loss
C17_Witness ==
    \E k \in 1..Len(trades) :
        /\ trades[k].sell_reason = "stop_loss"
        /\ trades[k].shares = 200

\* C18: (as claimed) a trailing-stop exit after a peak above the activation
\* level is at a higher threshold than the one in force at activation.
C18_Ratchet ==
    \A k \in 1..Len(trades) :
        (/\ trades[k].sell_reason = "trailing_stop"
         /\ HighestHigh(trades[k].buy_date, trades[k].sell_date) * 100
               > trades[k].buy_price * 102)
        => trades[k].sell_price * 100 > trades[k].buy_price * 101

\* C18 (amended): every trailing-stop exit is at 101% of the entry price,
\* however high the peak since entry has been.
C18_FixedFloor ==
    \A k \in 1..Len(trades) :
        trades[k].sell_reason = "trailing_stop" =>
            /\ trades[k].sell_price * 100 = trades[k].buy_price * 101
            /\ HighestHigh(trades[k].buy_date, trades[k].sell_date) * 100
                  >= trades[k].buy_price * 102

\* a trailing-stop exit at 101 after the high since entry at 100 reached 104
C18_Witness ==
    \E k \in 1..Len(trades) :
        /\ trades[k].sell_reason = "trailing_stop"
        /\ trades[k].buy_price = Px(100)
        /\ HighestHigh(trades[k].buy_date, trades[k].sell_date) = Px(104)
        /\ trades[k].sell_date > trades[k].buy_date + 1

\* the signal series is aligned and has no buy in [start_idx, len-2]
NoBuySignal ==
    /\ Len(signals) = Len(df)
    /\ \A k \in start_idx..(Len(df) - 2) : iloc(signals, k).signal # "buy"

\* nothing was traded and the measured return and drawdown are zero
NothingHappened ==
    /\ pc # "raised"
    /\ trades = <<>>
    /\ shares = 0
    /\ cash = initial_capital
    /\ \A k \in 1..Len(equity_curve) : equity_curve[k].equity = initial_capital
    /\ metrics # NotCalled =>
          /\ metrics.status = "ok"
          /\ metrics.total_return.num = 0
          /\ metrics.max_drawdown.num = 0

Positive == {k \in 1..Len(trades) : trades[k].sell_price > trades[k].buy_price}

NonPositive == {k \in 1..Len(trades) : trades[k].sell_price <= trades[k].buy_price}

\* C20: get_metrics counts as wins exactly the trades with pnl_pct > 0 and as
\* losses the others (pnl_pct = 0 included); wins + losses = total_trades;
\* win_rate = wins / total_trades * 100, and 0 when there are no trades.
C20_WinRate ==
    (metrics # NotCalled /\ metrics.status = "ok") =>
        /\ metrics.wins = Cardinality(Positive)
        /\ metrics.losses = Cardinality(NonPositive)
        /\ metrics.total_trades = Len(trades)
        /\ metrics.wins + metrics.losses = metrics.total_trades
        /\ IF trades = <<>> THEN metrics.win_rate.num = 0
           ELSE metrics.win_rate.num * metrics.total_trades
                    = metrics.wins * 100 * metrics.win_rate.den

\* a measured log of three trades: a win, a break-even and a loss
C20_Witness ==
    /\ metrics # NotCalled
    /\ metrics.status = "ok"
    /\ Len(trades) = 3
    /\ metrics.wins = 1
    /\ metrics.losses = 2
    /\ \E k \in 1..3 : trades[k].pnl_pct.num = 0
    /\ \E k \in 1..3 : trades[k].pnl_pct.num < 0

RECURSIVE PnlTotal(_)
\* the sum of pnl_pct over a set of positions of the trade log
PnlTotal(K) ==
    IF K = {} THEN Frac(0, 1)
    ELSE LET k == CHOOSE x \in K : TRUE
         IN  FracAdd(Reduce(trades[k].pnl_pct.num, trades[k].pnl_pct.den),
                     PnlTotal(K \ {k}))

\* C21: profit_factor is sum(winning pnl_pct) / abs(sum(losing pnl_pct)) when
\* that divisor is not zero; get_metrics never fails on a zero divisor: the
\* factor is +infinity with wins and no losing trade, 0 with neither.
C21_ProfitFactor ==
    (metrics # NotCalled /\ equity_curve # <<>> /\ start_idx < Len(df)) =>
        /\ metrics.status = "ok"
        /\ LET W == PnlTotal(Positive)
               L == PnlTotal(NonPositive)
               pf == metrics.profit_factor
           IN  /\ L.num # 0 =>
                     /\ ~ pf.inf
                     /\ pf.value.num * Abs(L.num) * W.den
                            = W.num * L.den * pf.value.den
               /\ (Positive # {} /\ NonPositive = {}) => pf.inf
               /\ (Positive = {} /\ NonPositive = {}) =>
                     (~ pf.inf /\ pf.value.num = 0)
               /\ (L.num = 0 /\ ~ pf.inf) => pf.value.num = 0

\* a measured log with gains of 1% and 2% and a loss of 3%: the factor is 1
C21_Witness ==
    /\ metrics # NotCalled
    /\ metrics.status = "ok"
    /\ Cardinality(Positive) = 2
    /\ Cardinality(NonPositive) = 1
    /\ ~ metrics.profit_factor.inf
    /\ metrics.profit_factor.value = Frac(1, 1)

\* days 1.. of the frame, as 1-based positions with a row before them
Days == 2..Len(df)

BuyReasonOccurs(n) ==
    \/ macd_golden(df[n], df[n - 1])
    \/ (kdj_golden(df[n], df[n - 1]) /\ df[n].J < 30)

SellReasonOccurs(n) ==
    \/ macd_death(df[n], df[n - 1])
    \/ (kdj_death(df[n], df[n - 1]) /\ df[n].J > 70)

DoubleGoldenAt(n) == macd_golden(df[n], df[n - 1]) /\ kdj_golden(df[n], df[n - 1])

DoubleDeathAt(n) == macd_death(df[n], df[n - 1]) /\ kdj_death(df[n], df[n - 1])

Ambiguous(n) ==
    /\ BuyReasonOccurs(n) /\ SellReasonOccurs(n)
    /\ ~ DoubleGoldenAt(n) /\ ~ DoubleDeathAt(n)

\* the close is at or below a valid, positive MA20
TrendGuarded(n) ==
    /\ df[n].MA20 # NaN /\ df[n].MA20[1] > 0
    /\ df[n].close <= df[n].MA20[1]

\* C22: (as claimed) strategy A emits no signal on a day with a buy reason and
\* a sell reason and neither double cross.
C22_AmbiguousDaySilent ==
    pc = "signals_a" => \A n \in Days : Ambiguous(n) => signals[n].signal = "none"

\* C22 (amended): on such a day strategy A emits no signal when the close is
\* above MA20 or MA20 is missing; when the close is at or below a valid MA20
\* the buy reasons are dropped first and the sell signal is emitted.
C22_AmbiguousDay ==
    pc = "signals_a" =>
        \A n \in Days : Ambiguous(n) =>
            IF TrendGuarded(n)
            THEN signals[n].signal = "sell" /\ ~ Has(signals[n].reason, DoubleDeath)
            ELSE signals[n] = NoSignal

\* a MACD golden cross with a KDJ high-zone death cross, close above MA20
C22_Witness ==
    /\ pc = "signals_a"
    /\ \E n \in Days :
          /\ macd_golden(df[n], df[n - 1])
          /\ kdj_death(df[n], df[n - 1]) /\ df[n].J > 70
          /\ df[n].MA20 # NaN /\ df[n].close > df[n].MA20[1]
          /\ signals[n].signal = "none"

\* C23: on a day whose close is below a valid positive MA20, strategy A emits a
\* buy only with the double golden cross, and then the reason carries the
\* weak-trend mark.
C23_TrendGuard ==
    pc = "signals_a" =>
        \A n \in Days :
            (/\ df[n].MA20 # NaN /\ df[n].MA20[1] > 0
             /\ df[n].close < df[n].MA20[1]) =>
                /\ signals[n].signal = "buy" =>
                      /\ DoubleGoldenAt(n)
                      /\ Has(signals[n].reason, WeakTrend)
                /\ ~ DoubleGoldenAt(n) => signals[n].signal # "buy"

\* a double golden cross below MA20 emitted as a marked buy
C23_Witness ==
    /\ pc = "signals_a"
    /\ \E n \in Days :
          /\ df[n].MA20 # NaN /\ df[n].close < df[n].MA20[1]
          /\ DoubleGoldenAt(n)
          /\ signals[n].signal = "buy"
          /\ Has(signals[n].reason, WeakTrend)

\* C24: strategy B emits buy iff the buy score is >= 10 and above the sell
\* score, sell iff the sell score is >= 10 and above the buy score, nothing
\* otherwise; both scores of _score_day lie in 0..20; rows 0 and 1 get no
\* signal.
C24_ScoreSignal ==
    pc = "signals_b" =>
        \A n \in 1..Len(df) :
            LET sc == _score_day(df, n - 1)
            IN  /\ sc.b \in 0..20 /\ sc.s \in 0..20
                /\ signals[n].signal = "buy" <=> (sc.b >= 10 /\ sc.b > sc.s)
                /\ signals[n].signal = "sell" <=> (sc.s >= 10 /\ sc.s > sc.b)
                /\ signals[n].signal \in {"buy", "sell", "none"}
                /\ n <= 2 => signals[n] = NoSignal

\* equal scores of at least 10 give no signal, and another frame's row a buy
C24_Witness ==
    /\ pc = "signals_b"
    /\ \E n \in 3..Len(df) :
          LET sc == _score_day(df, n - 1)
          IN  sc.b = sc.s /\ sc.b >= 10 /\ signals[n].signal = "none"

\* a row as it was before calculate_indicators filled MACD_divergence in
RawRow(row) == [row EXCEPT !.MACD_divergence = "none"]

\* the frames that agree with the generated one on rows 1..n (bars 0..n-1)
\* and carry other rows after them
SamePrefixFrames(n) ==
    LET later == {m \in TailRows(Len(df)) : m > n}
    IN  { [m \in 1..Len(df) |->
              IF m \in later THEN late[m] ELSE RawRow(df[m])] :
            late \in [later -> LateRows] }

\* C25: the signal and reason either generator emits at an index are the same
\* for every frame that agrees with this one up to that index, whatever its
\* later rows are (MACD_divergence being rebuilt by calculate_indicators).
C25_NoLookahead ==
    pc \in {"signals_a", "signals_b"} =>
        \A n \in 1..Len(df) :
            \A alt \in SamePrefixFrames(n) :
                signals[n] =
                    IF pc = "signals_a"
                    THEN strategy_a_signals(calculate_indicators(alt))[n]
                    ELSE strategy_b_signals(calculate_indicators(alt))[n]

\* a bottom divergence is scored at the last row, two rows after the low that
\* completes it
C25_Witness ==
    /\ pc = "signals_b"
    /\ Len(df) = LongFrameLen
    /\ df[Len(df)].MACD_divergence = "bottom"
    /\ df[Len(df) - 1].MACD_divergence = "none"
    /\ df[Len(df) - 2].close = 97
    /\ signals[Len(df)].signal = "buy"
    /\ signals[Len(df) - 1].signal = "none"

\* C26: every closed trade's exit bar is later than its entry bar, so no
\* risk-control check is applied on the bar the position was entered on.
C26_ExitAfterEntry ==
    \A k \in 1..Len(trades) : trades[k].sell_date > trades[k].buy_date

\* a risk-control exit on the bar after an entry bar that itself rose 2% above
\* the entry price and traded below the 1% floor
C26_Witness ==
    \E k \in 1..Len(trades) :
        /\ trades[k].sell_reason \in RiskReasons
        /\ trades[k].sell_date = trades[k].buy_date + 1
        /\ Px(BarAt(trades[k].buy_date).high) * 100 >= trades[k].buy_price * 102
        /\ Px(BarAt(trades[k].buy_date).low) * 100 <= trades[k].buy_price * 101

\* C27: every closed trade's exit price lies between the low and the high of
\* its exit bar.
C27_ExitWithinBar ==
    \A k \in 1..Len(trades) :
        /\ Px(BarAt(trades[k].sell_date).low) <= trades[k].sell_price
        /\ trades[k].sell_price <= Px(BarAt(trades[k].sell_date).high)

\* C28: a trailing-stop exit on bar j happens only when the highest high of
\* the bars from the entry bar through bar j-1 had reached 102% of the entry
\* price.
C28_ActivatedBefore ==
    \A k \in 1..Len(trades) :
        trades[k].sell_reason = "trailing_stop" =>
            HighestHigh(trades[k].buy_date, trades[k].sell_date - 1) * 100
                >= trades[k].buy_price * 102

\* what a closed trade added to the cash: proceeds less the sell cost, less
\* the purchase and the buy cost
NetGain(t) ==
    (Money(t.sell_price, t.shares) - _sell_cost(t.sell_price, t.shares))
    - (Money(t.buy_price, t.shares) + _buy_cost(t.buy_price, t.shares))

\* C29: every trade counted as a win (pnl_pct > 0) left more cash after its
\* exit than there was before its entry.
C29_WinIsNetGain ==
    /\ \A k \in 1..Len(trades) : is_win(trades[k].pnl_pct) => NetGain(trades[k]) > 0
    /\ (Len(trades) = 1 /\ shares = 0 /\ is_win(trades[1].pnl_pct)) =>
           cash > initial_capital

\* C30: when the final equity is below the initial capital, the reported
\* max_drawdown is positive and at least the percentage lost.
C30_DrawdownCoversLoss ==
    (metrics # NotCalled /\ metrics.status = "ok"
        /\ metrics.total_return.num < 0) =>
        /\ metrics.max_drawdown.num > 0
        /\ ~ FracGT(0 - metrics.total_return.num, metrics.total_return.den,
                    metrics.max_drawdown.num, metrics.max_drawdown.den)
====
